---- MODULE Spec2Model ----
(***************************************************************************)
(* Memory lifecycle of MyAgent (examples/mem0_livekit_agent/mem0_agent.py): *)
(* the per-session cache self.memories, the two function tools             *)
(* store_important_info and wipe_memories, the hooks on_enter and on_exit,  *)
(* and the shared mem0 client with its per-user partitions.                 *)
(*                                                                         *)
(* Every await of a mem0 call is a suspension point: the coroutine issues   *)
(* the request (one step), the store answers it (one step, success or       *)
(* exception), and the coroutine resumes (one step).  Strings that the code *)
(* lower-cases or searches are sequences of one-character strings.          *)
(***************************************************************************)
EXTENDS Integers, Sequences, FiniteSets, TLC

\* ------------------------------------------------------------------ bounds
MaxRecords == 2      \* records the store holds when on_enter is checked on its own
MaxCalls == 2        \* tool calls the LLM makes in the run
MaxSessions == 2     \* agents constructed one after the other

\* --------------------------------------------------------------- alphabet
UpperAlpha == <<"A","B","C","D","E","F","G","H","I","J","K","L","M",
                "N","O","P","Q","R","S","T","U","V","W","X","Y","Z">>
LowerAlpha == <<"a","b","c","d","e","f","g","h","i","j","k","l","m",
                "n","o","p","q","r","s","t","u","v","w","x","y","z">>

\* str.lower() on one character
LowerChar(c) ==
    IF \E i \in 1..26 : UpperAlpha[i] = c
    THEN LowerAlpha[CHOOSE i \in 1..26 : UpperAlpha[i] = c]
    ELSE c

\* str.lower()
Lower(s) == [i \in 1..Len(s) |-> LowerChar(s[i])]

\* `word in text` for str operands: word is a contiguous substring of text
Contains(text, word) ==
    \E i \in 1..(Len(text) - Len(word) + 1) :
        SubSeq(text, i, i + Len(word) - 1) = word

\* the keyword list of on_enter, in source order
TravelWords == << <<"t","r","i","p">>,
                  <<"t","r","a","v","e","l">>,
                  <<"v","a","c","a","t","i","o","n">>,
                  <<"c","r","u","i","s","e">>,
                  <<"b","a","c","k","p","a","c","k","i","n","g">> >>

\* any(word in m.lower() for word in [...])
IsTripMemory(m) ==
    \E k \in 1..Len(TravelWords) : Contains(Lower(m), TravelWords[k])

\* list comprehension with a filter: the elements of s that satisfy Test, in order
RECURSIVE SelectTrip(_)
SelectTrip(s) ==
    IF s = <<>> THEN <<>>
    ELSE IF IsTripMemory(Head(s)) THEN <<Head(s)>> \o SelectTrip(Tail(s))
    ELSE SelectTrip(Tail(s))

\* [m for m in self.memories if any(...)]
TripMemories(mems) == SelectTrip(mems)

\* the comprehension building its list back to front
RECURSIVE ExtractMemories_Reversed(_)
ExtractMemories_Reversed(records) ==
    IF records = <<>> THEN <<>>
    ELSE IF "memory" \in DOMAIN Head(records)
         THEN ExtractMemories_Reversed(Tail(records)) \o <<Head(records).memory>>
         ELSE ExtractMemories_Reversed(Tail(records))

\* [memory["memory"] for memory in memories if "memory" in memory]
RECURSIVE ExtractMemories(_)
ExtractMemories(records) ==
    IF records = <<>> THEN <<>>
    ELSE IF "memory" \in DOMAIN Head(records)
         THEN <<Head(records).memory>> \o ExtractMemories(Tail(records))
         ELSE ExtractMemories(Tail(records))

\* ------------------------------------------------------- inputs of the run
FactTrip == <<"T","r","i","p">>
FactCruise == <<"C","R","U","I","S","E">>
FactTea == <<"t","e","a">>
Facts == {FactTrip, FactCruise, FactTea}

\* records the store may hold before the first session; one has no text field
InitialRecords == {[id |-> 0]} \cup {[id |-> 1, memory |-> f] : f \in Facts}

\* participant.identity as handed to MyAgent(username=...); "" is the falsy
\* value (None or the empty string)
\* the (info, category) pairs the LLM calls store_important_info with
StoreArgs == {<<FactTrip, "travel_planning">>, <<FactTea, "preferences">>}

Usernames == {"", "alice"}

\* username or "default_user"
UserIdOf(username) == IF username = "" THEN "default_user" ELSE username
UserIds == {UserIdOf(u) : u \in Usernames}

\* -------------------------------------------------------- fixed strings
FirstTimeGreeting ==
    [greet |-> "the user", variant |-> "first_time", plan |-> <<>>]
GenericGreeting(uid) ==
    [greet |-> uid, variant |-> "generic", plan |-> <<>>]
ContinuationGreeting(uid, m) ==
    [greet |-> uid, variant |-> "continuation", plan |-> Lower(m)]

WipeOkMsg == <<"I've cleared all my memories. We can start fresh!">>
WipeFailMsg == <<"I had trouble clearing my memories. Please try again.">>
WipeNoUserMsg == <<"I had trouble clearing my memories - no user identified">>

\* the acknowledgment without the category
StoreOkMsg_NoCategory(category) == <<"Stored important information", "">>

StoreOkMsg(category) == <<"Stored important information about ", category>>

StoreFailMsg == <<"I had trouble storing that information">>
StoreNoUserMsg == <<"I had trouble storing that information - no user identified">>
NoRet == <<>>

VARIABLES
    store,      \* mem0: user_id -> sequence of memory records
    user_id,    \* self.user_id
    memories,   \* self.memories
    pc,         \* where the session is: constructed, loading, live, flushing, exited
    load,       \* the get_all awaited by on_enter
    replies,    \* directives handed to session.generate_reply
    calls,      \* the tool calls of this session, in the order they were made
    flush,      \* the loop of on_exit: index and the add it awaits
    requests,   \* the mem0 requests this session has issued, in order
    resumed,    \* the tool calls in the order their await returned
    hydrated,   \* self.memories as on_enter left it
    raised,     \* the hooks and tools that an exception has left
    sessions,   \* agents constructed so far
    ncalls,     \* tool calls made so far in the run
    prev        \* what is remembered of the session, or of the load, before this one

vars == <<store, user_id, memories, pc, load, replies, calls, flush,
          requests, resumed, hydrated, raised, sessions, ncalls, prev>>

Idle == [st |-> "idle", resp |-> "none", result |-> <<>>]

\* nothing came before
NoPrev == [user_id |-> "", kind |-> "none", facts |-> <<>>]

\* MyAgent.__init__
Construct(username) ==
    /\ user_id' = UserIdOf(username)
    /\ memories' = <<>>
    /\ pc' = "constructed"
    /\ load' = Idle
    /\ replies' = <<>>
    /\ calls' = <<>>
    /\ flush' = [i |-> 0, st |-> "idle", resp |-> "none"]
    /\ requests' = <<>>
    /\ resumed' = <<>>
    /\ hydrated' = <<>>
    /\ raised' = {}

\* the partitions a store may hold: at most n records over all users
RECURSIVE TotalRecords(_, _)
TotalRecords(st, users) ==
    IF users = {} THEN 0
    ELSE LET u == CHOOSE x \in users : TRUE
         IN Len(st[u]) + TotalRecords(st, users \ {u})

Snapshots(n) == UNION {[1..k -> InitialRecords] : k \in 0..n}
Stores(n) == {st \in [UserIds -> Snapshots(n)] : TotalRecords(st, UserIds) <= n}

\* the agent right after MyAgent(username=participant.identity)
Constructed ==
    /\ \E username \in Usernames : user_id = UserIdOf(username)
    /\ memories = <<>>
    /\ pc = "constructed"
    /\ load = Idle
    /\ replies = <<>>
    /\ calls = <<>>
    /\ flush = [i |-> 0, st |-> "idle", resp |-> "none"]
    /\ requests = <<>>
    /\ resumed = <<>>
    /\ hydrated = <<>>
    /\ raised = {}
    /\ sessions = 1
    /\ ncalls = 0
    /\ prev = NoPrev

\* the store before the first session of a run: empty, or alice has been
\* here before and left a record without text and a travel fact
PriorStores ==
    {[u \in UserIds |-> <<>>],
     [u \in UserIds |-> IF u = "alice"
                        THEN <<[id |-> 0], [id |-> 1, memory |-> FactCruise]>>
                        ELSE <<>>]}

Init == store \in PriorStores /\ Constructed

Request(op, uid, content, src, call) ==
    [op |-> op, user_id |-> uid, content |-> content, src |-> src, call |-> call]

\* ---------------------------------------------------------------- on_enter
\* on_enter up to its await of mem0.get_all
OnEnterBegin ==
    /\ pc = "constructed"
    /\ IF user_id = ""
       THEN /\ replies' = Append(replies, FirstTimeGreeting)
            /\ pc' = "live"
            /\ hydrated' = memories
            /\ UNCHANGED <<load, requests>>
       ELSE /\ requests' = Append(requests, Request("get_all", user_id, <<>>, "on_enter", 0))
            /\ load' = [st |-> "awaiting", resp |-> "none", result |-> <<>>]
            /\ pc' = "loading"
            /\ UNCHANGED <<replies, hydrated>>
    /\ UNCHANGED <<store, user_id, memories, calls, flush, resumed, raised, sessions, ncalls, prev>>

\* the store answers get_all: the partition of the filtered user, or an exception
GetAllResponds ==
    /\ pc = "loading"
    /\ load.st = "awaiting"
    /\ \/ load' = [st |-> "responded", resp |-> "ok",
                   result |-> store[requests[Len(requests)].user_id]]
       \/ load' = [st |-> "responded", resp |-> "error", result |-> <<>>]
    /\ UNCHANGED <<store, user_id, memories, pc, replies, calls, flush,
                   requests, resumed, hydrated, raised, sessions, ncalls, prev>>

\* the greeting taking trip_memories[-1] instead of trip_memories[0]
GreetingFor_LastTrip(uid, mems) ==
    IF TripMemories(mems) # <<>>
    THEN ContinuationGreeting(uid, TripMemories(mems)[Len(TripMemories(mems))])
    ELSE GenericGreeting(uid)

\* the greeting computed from self.memories once it is non-empty
GreetingFor(uid, mems) ==
    IF TripMemories(mems) # <<>>
    THEN ContinuationGreeting(uid, TripMemories(mems)[1])
    ELSE GenericGreeting(uid)

\* on_enter extending self.memories instead of assigning it
OnEnterOutcome_Extend(uid, old, resp, result) ==
    IF resp = "ok"
    THEN IF result # <<>>
         THEN IF old \o ExtractMemories(result) # <<>>
              THEN [memories |-> old \o ExtractMemories(result),
                    replies |-> <<GreetingFor(uid, old \o ExtractMemories(result))>>,
                    raised |-> FALSE]
              ELSE [memories |-> <<>>,
                    replies |-> <<FirstTimeGreeting>>, raised |-> FALSE]
         ELSE [memories |-> old, replies |-> <<FirstTimeGreeting>>, raised |-> FALSE]
    ELSE [memories |-> <<>>, replies |-> <<FirstTimeGreeting>>, raised |-> FALSE]

\* on_enter without its except branch: a failed get_all leaves on_enter as
\* an exception and no directive is handed over
OnEnterOutcome_NoExcept(uid, old, resp, result) ==
    IF resp = "ok"
    THEN IF result # <<>>
         THEN IF ExtractMemories(result) # <<>>
              THEN [memories |-> ExtractMemories(result),
                    replies |-> <<GreetingFor(uid, ExtractMemories(result))>>,
                    raised |-> FALSE]
              ELSE [memories |-> ExtractMemories(result),
                    replies |-> <<FirstTimeGreeting>>, raised |-> FALSE]
         ELSE [memories |-> old, replies |-> <<FirstTimeGreeting>>, raised |-> FALSE]
    ELSE [memories |-> old, replies |-> <<>>, raised |-> TRUE]

\* on_enter after the await: what it assigns to self.memories, the
\* directives it hands to generate_reply, and whether an exception leaves it
OnEnterOutcome(uid, old, resp, result) ==
    IF resp = "ok"
    THEN IF result # <<>>
         THEN IF ExtractMemories(result) # <<>>
              THEN [memories |-> ExtractMemories(result),
                    replies |-> <<GreetingFor(uid, ExtractMemories(result))>>,
                    raised |-> FALSE]
              ELSE [memories |-> ExtractMemories(result),
                    replies |-> <<FirstTimeGreeting>>, raised |-> FALSE]
         ELSE [memories |-> old, replies |-> <<FirstTimeGreeting>>, raised |-> FALSE]
    ELSE [memories |-> <<>>, replies |-> <<FirstTimeGreeting>>, raised |-> FALSE]

OnEnterResume ==
    /\ pc = "loading"
    /\ load.st = "responded"
    /\ LET out == OnEnterOutcome(user_id, memories, load.resp, load.result)
       IN /\ memories' = out.memories
          /\ hydrated' = out.memories
          /\ replies' = replies \o out.replies
          /\ raised' = IF out.raised THEN raised \cup {"on_enter"} ELSE raised
    /\ load' = [load EXCEPT !.st = "done"]
    /\ pc' = "live"
    /\ UNCHANGED <<store, user_id, calls, flush, requests, resumed, sessions, ncalls, prev>>

\* ------------------------------------------------------------ tool calls
NewCall(tool, info, category, st, ret, req) ==
    [tool |-> tool, info |-> info, category |-> category, st |-> st,
     resp |-> "none", ret |-> ret, req |-> req,
     \* for a wipe, how many tool calls had returned when it was called
     began |-> IF tool = "wipe" THEN Len(resumed) ELSE 0]

NoRequest == Request("none", "", <<>>, "none", 0)

\* messages = [{"role": "assistant", "content": info}]
Messages(info) == <<[role |-> "assistant", content |-> info]>>

\* the host dispatches tool calls once the dialogue is live, which follows
\* on_enter, and no longer once teardown has begun
HostDispatchesTools_Early == pc \in {"loading", "live"}

HostDispatchesTools == pc = "live"

\* store_important_info up to its await of mem0.add
StoreBegin(info, category) ==
    /\ HostDispatchesTools
    /\ ncalls < MaxCalls
    /\ ncalls' = ncalls + 1
    /\ LET c == Len(calls) + 1
           req == Request("add", user_id, Messages(info), "tool", c)
       IN IF user_id = ""
          THEN /\ calls' = Append(calls, NewCall("store", info, category, "done",
                                                 StoreNoUserMsg, NoRequest))
               /\ UNCHANGED requests
          ELSE /\ calls' = Append(calls, NewCall("store", info, category, "awaiting",
                                                 NoRet, req))
               /\ requests' = Append(requests, req)
    /\ UNCHANGED <<store, user_id, memories, pc, load, replies, flush,
                   resumed, hydrated, raised, sessions, prev>>

\* wipe_memories up to its await of mem0.delete_all
WipeBegin ==
    /\ HostDispatchesTools
    /\ ncalls < MaxCalls
    /\ ncalls' = ncalls + 1
    /\ LET c == Len(calls) + 1
           req == Request("delete_all", user_id, <<>>, "tool", c)
       IN IF user_id = ""
          THEN /\ calls' = Append(calls, NewCall("wipe", <<>>, "", "done",
                                                 WipeNoUserMsg, NoRequest))
               /\ UNCHANGED requests
          ELSE /\ calls' = Append(calls, NewCall("wipe", <<>>, "", "awaiting",
                                                 NoRet, req))
               /\ requests' = Append(requests, req)
    /\ UNCHANGED <<store, user_id, memories, pc, load, replies, flush,
                   resumed, hydrated, raised, sessions, prev>>

\* what the store holds after it has carried out a request
Applied(st, req) ==
    IF req.op = "add"
    THEN [st EXCEPT ![req.user_id] =
              Append(@, [id |-> 1, memory |-> req.content[1].content])]
    ELSE IF req.op = "delete_all"
    THEN [st EXCEPT ![req.user_id] = <<>>]
    ELSE st

\* the store answers the add or delete_all of tool call c: it carries the
\* request out and returns, or the call raises and the store is unchanged
ToolCallResponds(c) ==
    /\ calls[c].st = "awaiting"
    /\ \/ /\ store' = Applied(store, calls[c].req)
          /\ calls' = [calls EXCEPT ![c].st = "responded", ![c].resp = "ok"]
       \/ /\ calls' = [calls EXCEPT ![c].st = "responded", ![c].resp = "error"]
          /\ UNCHANGED store
    /\ UNCHANGED <<user_id, memories, pc, load, replies, flush, requests,
                   resumed, hydrated, raised, sessions, ncalls, prev>>

\* store_important_info overwriting the last entry instead of appending
StoreOutcome_ReplaceLast(mems, resp, info, category) ==
    IF resp = "ok"
    THEN [memories |-> IF mems = <<>> THEN <<info>>
                       ELSE [mems EXCEPT ![Len(mems)] = info],
          ret |-> StoreOkMsg(category), raised |-> FALSE]
    ELSE [memories |-> mems, ret |-> StoreFailMsg, raised |-> FALSE]

\* store_important_info keeping in the cache only what is travel planning
StoreOutcome_CategoryGate(mems, resp, info, category) ==
    IF resp = "ok"
    THEN [memories |-> IF category = "travel_planning" THEN Append(mems, info) ELSE mems,
          ret |-> StoreOkMsg(category), raised |-> FALSE]
    ELSE [memories |-> mems, ret |-> StoreFailMsg, raised |-> FALSE]

\* store_important_info acknowledging in its except branch too
StoreOutcome_AckOnFailure(mems, resp, info, category) ==
    IF resp = "ok"
    THEN [memories |-> Append(mems, info), ret |-> StoreOkMsg(category), raised |-> FALSE]
    ELSE [memories |-> mems, ret |-> StoreOkMsg(category), raised |-> FALSE]

\* store_important_info without its except branch
StoreOutcome_Reraise(mems, resp, info, category) ==
    IF resp = "ok"
    THEN [memories |-> Append(mems, info), ret |-> StoreOkMsg(category), raised |-> FALSE]
    ELSE [memories |-> mems, ret |-> NoRet, raised |-> TRUE]

\* store_important_info appending before it knows the outcome of the add
StoreOutcome_Optimistic(mems, resp, info, category) ==
    IF resp = "ok"
    THEN [memories |-> Append(mems, info), ret |-> StoreOkMsg(category), raised |-> FALSE]
    ELSE [memories |-> Append(mems, info), ret |-> StoreFailMsg, raised |-> FALSE]

\* store_important_info inserting at the front of self.memories
StoreOutcome_Prepend(mems, resp, info, category) ==
    IF resp = "ok"
    THEN [memories |-> <<info>> \o mems, ret |-> StoreOkMsg(category), raised |-> FALSE]
    ELSE [memories |-> mems, ret |-> StoreFailMsg, raised |-> FALSE]

\* store_important_info after the await: the append and the return value,
\* or the except branch
StoreOutcome(mems, resp, info, category) ==
    IF resp = "ok"
    THEN [memories |-> Append(mems, info), ret |-> StoreOkMsg(category), raised |-> FALSE]
    ELSE [memories |-> mems, ret |-> StoreFailMsg, raised |-> FALSE]

StoreResume(c) ==
    /\ calls[c].tool = "store"
    /\ calls[c].st = "responded"
    /\ LET out == StoreOutcome(memories, calls[c].resp, calls[c].info, calls[c].category)
       IN /\ memories' = out.memories
          /\ calls' = [calls EXCEPT ![c].st = "done", ![c].ret = out.ret]
          /\ raised' = IF out.raised THEN raised \cup {"store_important_info"} ELSE raised
    /\ resumed' = Append(resumed, c)
    /\ UNCHANGED <<store, user_id, pc, load, replies, flush, requests,
                   hydrated, sessions, ncalls, prev>>

\* wipe_memories clearing self.memories in the except branch too
WipeOutcome_ClearAlways(mems, resp) ==
    IF resp = "ok"
    THEN [memories |-> <<>>, ret |-> WipeOkMsg, raised |-> FALSE]
    ELSE [memories |-> <<>>, ret |-> WipeFailMsg, raised |-> FALSE]

\* wipe_memories without the assignment self.memories = []
WipeOutcome_NoClear(mems, resp) ==
    IF resp = "ok"
    THEN [memories |-> mems, ret |-> WipeOkMsg, raised |-> FALSE]
    ELSE [memories |-> mems, ret |-> WipeFailMsg, raised |-> FALSE]

\* wipe_memories after the await: the clear and the return value, or the
\* except branch
WipeOutcome(mems, resp) ==
    IF resp = "ok"
    THEN [memories |-> <<>>, ret |-> WipeOkMsg, raised |-> FALSE]
    ELSE [memories |-> mems, ret |-> WipeFailMsg, raised |-> FALSE]

WipeResume(c) ==
    /\ calls[c].tool = "wipe"
    /\ calls[c].st = "responded"
    /\ LET out == WipeOutcome(memories, calls[c].resp)
       IN /\ memories' = out.memories
          /\ calls' = [calls EXCEPT ![c].st = "done", ![c].ret = out.ret]
          /\ raised' = IF out.raised THEN raised \cup {"wipe_memories"} ELSE raised
    /\ resumed' = Append(resumed, c)
    /\ UNCHANGED <<store, user_id, pc, load, replies, flush, requests,
                   hydrated, sessions, ncalls, prev>>

\* ----------------------------------------------------------------- on_exit
\* on_exit tagging its adds with the fallback user instead of self.user_id
FlushRequest_DefaultUser(uid, mems, i) ==
    Request("add", "default_user", Messages(mems[i]), "on_exit", 0)

FlushRequest(uid, mems, i) == Request("add", uid, Messages(mems[i]), "on_exit", 0)

\* on_exit up to its first await; the host runs it once tool calls have stopped
OnExitBegin ==
    /\ pc = "live"
    /\ \A c \in 1..Len(calls) : calls[c].st = "done"
    /\ IF memories # <<>>
       THEN /\ requests' = Append(requests, FlushRequest(user_id, memories, 1))
            /\ flush' = [i |-> 1, st |-> "awaiting", resp |-> "none"]
            /\ pc' = "flushing"
       ELSE /\ pc' = "exited"
            /\ UNCHANGED <<requests, flush>>
    /\ UNCHANGED <<store, user_id, memories, load, replies, calls,
                   resumed, hydrated, raised, sessions, ncalls, prev>>

\* the store answers the add awaited by the loop of on_exit
FlushAddResponds ==
    /\ pc = "flushing"
    /\ flush.st = "awaiting"
    /\ \/ /\ store' = Applied(store, requests[Len(requests)])
          /\ flush' = [flush EXCEPT !.st = "responded", !.resp = "ok"]
       \/ /\ flush' = [flush EXCEPT !.st = "responded", !.resp = "error"]
          /\ UNCHANGED store
    /\ UNCHANGED <<user_id, memories, pc, load, replies, calls, requests,
                   resumed, hydrated, raised, sessions, ncalls, prev>>

\* on_exit without its except branch
FlushStep_Reraise(mems, i, resp) ==
    IF resp = "error"
    THEN [go |-> "end", raised |-> TRUE]
    ELSE IF i < Len(mems)
    THEN [go |-> "next", raised |-> FALSE]
    ELSE [go |-> "end", raised |-> FALSE]

\* the loop of on_exit after an await returned: "next" goes on with the
\* following entry, "end" leaves on_exit (loop exhausted, or the except branch)
FlushStep(mems, i, resp) ==
    IF resp = "error"
    THEN [go |-> "end", raised |-> FALSE]
    ELSE IF i < Len(mems)
    THEN [go |-> "next", raised |-> FALSE]
    ELSE [go |-> "end", raised |-> FALSE]

OnExitResume ==
    /\ pc = "flushing"
    /\ flush.st = "responded"
    /\ LET step == FlushStep(memories, flush.i, flush.resp)
       IN /\ raised' = IF step.raised THEN raised \cup {"on_exit"} ELSE raised
          /\ IF step.go = "next"
             THEN /\ requests' = Append(requests,
                                        FlushRequest(user_id, memories, flush.i + 1))
                  /\ flush' = [i |-> flush.i + 1, st |-> "awaiting", resp |-> "none"]
                  /\ UNCHANGED pc
             ELSE /\ flush' = [flush EXCEPT !.st = "done"]
                  /\ pc' = "exited"
                  /\ UNCHANGED requests
    /\ UNCHANGED <<store, user_id, memories, load, replies, calls,
                   resumed, hydrated, sessions, ncalls, prev>>

\* the session made store_important_info calls that had all returned when
\* it called wipe_memories, whose delete_all succeeded, and no call since
StoreThenWipe ==
    /\ Len(calls) >= 2
    /\ Len(resumed) = Len(calls)
    /\ LET w == resumed[Len(resumed)]
       IN /\ calls[w].tool = "wipe"
          /\ calls[w].resp = "ok"
          /\ calls[w].began = Len(calls) - 1
          /\ \A c \in 1..Len(calls) :
                c # w => calls[c].tool = "store" /\ calls[c].st = "done"

\* the session found no memory, gave the first-time greeting, and made one
\* store_important_info call, whose add succeeded
StoredOnce ==
    /\ load.resp = "ok"
    /\ load.result = <<>>
    /\ replies = <<FirstTimeGreeting>>
    /\ Len(calls) = 1
    /\ calls[1].tool = "store"
    /\ calls[1].st = "done"
    /\ calls[1].resp = "ok"

\* what a next session of user uid remembers of this one: something only
\* when it is a session of the same user
SessionSummary(uid) ==
    IF uid = user_id /\ StoreThenWipe
    THEN [user_id |-> user_id, kind |-> "wiped",
          facts |-> [i \in 1..Len(SelectSeq(resumed, LAMBDA c : calls[c].resp = "ok")) - 1 |->
                        calls[SelectSeq(resumed, LAMBDA c : calls[c].resp = "ok")[i]].info]]
    ELSE IF uid = user_id /\ StoredOnce
    THEN [user_id |-> user_id, kind |-> "stored_once", facts |-> <<calls[1].info>>]
    ELSE [user_id |-> "", kind |-> "other", facts |-> <<>>]

\* entrypoint: the next job constructs its own MyAgent on the shared client
NewSession(username) ==
    /\ pc = "exited"
    /\ sessions < MaxSessions
    /\ Construct(username)
    /\ sessions' = sessions + 1
    /\ prev' = SessionSummary(UserIdOf(username))
    /\ UNCHANGED <<store, ncalls>>

Next ==
    \/ OnEnterBegin
    \/ GetAllResponds
    \/ OnEnterResume
    \/ \E args \in StoreArgs : StoreBegin(args[1], args[2])
    \/ WipeBegin
    \/ \E c \in 1..Len(calls) : ToolCallResponds(c)
    \/ \E c \in 1..Len(calls) : StoreResume(c)
    \/ \E c \in 1..Len(calls) : WipeResume(c)
    \/ OnExitBegin
    \/ FlushAddResponds
    \/ OnExitResume
    \/ \E username \in Usernames : NewSession(username)

Spec == Init /\ [][Next]_vars

\* on_enter on its own, against every store of up to MaxRecords records
InitEnter == store \in Stores(MaxRecords) /\ Constructed

NextEnter ==
    \/ OnEnterBegin
    \/ GetAllResponds
    \/ OnEnterResume

SpecEnter == InitEnter /\ [][NextEnter]_vars

\* the host invokes on_enter a second time on the live agent; nothing has
\* been written to the store since the first load
OnEnterAgain ==
    /\ pc = "live"
    /\ prev = NoPrev
    /\ calls = <<>>
    /\ prev' = [user_id |-> user_id,
                kind |-> IF load.resp = "ok" THEN "loaded_ok" ELSE "loaded_error",
                facts |-> memories]
    /\ pc' = "constructed"
    /\ load' = Idle
    /\ UNCHANGED <<store, user_id, memories, replies, calls, flush, requests,
                   resumed, hydrated, raised, sessions, ncalls>>

\* on_enter run twice against every store of up to MaxRecords records
NextReload ==
    \/ OnEnterBegin
    \/ GetAllResponds
    \/ OnEnterResume
    \/ OnEnterAgain

SpecReload == InitEnter /\ [][NextReload]_vars

\* the categories the LLM may give to one and the same fact
Categories == {"travel_planning", "preferences"}

\* a session in which the LLM stores one fact under either category
NextCategory ==
    \/ OnEnterBegin
    \/ GetAllResponds
    \/ OnEnterResume
    \/ \E category \in Categories : StoreBegin(FactTrip, category)
    \/ \E c \in 1..Len(calls) : ToolCallResponds(c)
    \/ \E c \in 1..Len(calls) : StoreResume(c)

SpecCategory == Init /\ [][NextCategory]_vars

\* ------------------------------------------------------------- properties
\* tool call c begins in this step
Begins(c) == Len(calls') = Len(calls) + 1 /\ c = Len(calls')

\* tool call c returns in this step
Returns(c) ==
    /\ c \in 1..Len(calls)
    /\ c \in 1..Len(calls')
    /\ calls[c].st = "responded"
    /\ calls'[c].st = "done"

InSeq(x, s) == \E i \in 1..Len(s) : s[i] = x

\* the requests tool call c has issued
RequestsOf(c) == SelectSeq(requests, LAMBDA r : r.src = "tool" /\ r.call = c)

\* C1: a wipe_memories whose delete_all raised never touches self.memories
\* (neither when it begins nor when it returns: the cache it returns with is
\* the cache it found, same facts in the same order) and returns the
\* apologetic message, not the success message.
C1_FailedWipeKeepsCache ==
    [][\A c \in 1..MaxCalls :
          /\ (Begins(c) /\ calls'[c].tool = "wipe") => memories' = memories
          /\ (Returns(c) /\ calls[c].tool = "wipe" /\ calls[c].resp = "error")
                => /\ memories' = memories
                   /\ calls'[c].ret = WipeFailMsg
                   /\ calls'[c].ret # WipeOkMsg]_vars

\* a wipe has returned after its delete_all raised, and the cache still holds facts
C1_Witness ==
    \E c \in 1..Len(calls) :
        /\ calls[c].tool = "wipe"
        /\ calls[c].st = "done"
        /\ calls[c].resp = "error"
        /\ calls[c].ret = WipeFailMsg
        /\ memories # <<>>

\* every wipe_memories has issued exactly one request, a delete_all for the
\* session's user_id
C2_OneDelete ==
    \A c \in 1..Len(calls) :
        calls[c].tool = "wipe" =>
            /\ Len(RequestsOf(c)) = 1
            /\ RequestsOf(c)[1].op = "delete_all"
            /\ RequestsOf(c)[1].user_id = user_id

\* C2: wipe_memories issues exactly one delete_all, scoped to the session's
\* user_id; when that call succeeds the tool returns the success message and
\* self.memories is empty at the moment it returns, whether or not the cache
\* held facts before.
C2_SuccessfulWipeClears ==
    /\ []C2_OneDelete
    /\ [][\A c \in 1..MaxCalls :
             (Returns(c) /\ calls[c].tool = "wipe" /\ calls[c].resp = "ok")
                => /\ memories' = <<>>
                   /\ calls'[c].ret = WipeOkMsg]_vars

\* two wipes have succeeded one after the other in a session that hydrated
\* facts: the first cleared a non-empty cache, the second found it empty
C2_Witness ==
    /\ hydrated # <<>>
    /\ Len(calls) = 2
    /\ resumed = <<1, 2>>
    /\ \A c \in 1..2 : /\ calls[c].tool = "wipe"
                       /\ calls[c].resp = "ok"
                       /\ calls[c].ret = WipeOkMsg
    /\ memories = <<>>

OnlyStores == \A c \in 1..Len(calls) : calls[c].tool = "store"

\* the facts of the given calls, in the given order
InfosOf(cs) == [i \in 1..Len(cs) |-> calls[cs[i]].info]

FlushedFacts ==
    LET adds == SelectSeq(requests, LAMBDA r : r.src = "on_exit")
    IN [i \in 1..Len(adds) |-> adds[i].content[1].content]

\* C5 as stated: when on_exit has run to completion every fact of the cache
\* has been re-submitted exactly once, in cache order, under the session's
\* user_id, whatever the outcome of the individual add calls.
C5_FlushResubmitsAll ==
    pc = "exited" =>
        /\ FlushedFacts = memories
        /\ \A i \in 1..Len(requests) :
              requests[i].src = "on_exit" =>
                  requests[i].op = "add" /\ requests[i].user_id = user_id

\* the directives on_enter can hand to generate_reply
IsGreeting(d) ==
    \/ d = FirstTimeGreeting
    \/ d.variant \in {"generic", "continuation"} /\ d.greet = user_id

\* C6: whatever get_all returns or raises, on_enter does not raise and hands
\* exactly one greeting directive to generate_reply (none before it has
\* resumed); when the call failed the cache is empty afterwards and the
\* directive is the first-time greeting.
C6_OneGreetingAlways ==
    /\ "on_enter" \notin raised
    /\ pc \in {"constructed", "loading"} => replies = <<>>
    /\ pc = "live" =>
          /\ Len(replies) = 1
          /\ IsGreeting(replies[1])
          /\ load.resp = "error" =>
                memories = <<>> /\ replies = <<FirstTimeGreeting>>

\* on_enter has completed after get_all raised although the store holds
\* records for the user
C6_Witness ==
    /\ pc = "live"
    /\ load.resp = "error"
    /\ store[user_id] # <<>>
    /\ replies = <<FirstTimeGreeting>>

\* the strings the two tools return
ToolStrings ==
    {WipeOkMsg, WipeFailMsg, WipeNoUserMsg, StoreFailMsg, StoreNoUserMsg}
        \cup {StoreOkMsg(a[2]) : a \in StoreArgs}

\* C7: store_important_info and wipe_memories never raise: whatever the
\* outcome of the remote call, a call whose await has returned can complete,
\* a completed call has returned a user-facing string, and a remote failure
\* has been turned into the apologetic string of the tool.
C7_ToolsNeverRaise ==
    /\ raised \cap {"store_important_info", "wipe_memories"} = {}
    /\ \A c \in 1..Len(calls) :
          /\ calls[c].st = "responded" => ENABLED (StoreResume(c) \/ WipeResume(c))
          /\ calls[c].st = "done" =>
                /\ calls[c].ret \in ToolStrings
                /\ calls[c].resp = "error" =>
                      calls[c].ret = IF calls[c].tool = "store"
                                     THEN StoreFailMsg ELSE WipeFailMsg

\* a store_important_info and a wipe_memories have both returned their
\* apologetic string after their remote call raised
C7_Witness ==
    /\ \E c \in 1..Len(calls) :
          /\ calls[c].tool = "store" /\ calls[c].st = "done"
          /\ calls[c].resp = "error" /\ calls[c].ret = StoreFailMsg
    /\ \E c \in 1..Len(calls) :
          /\ calls[c].tool = "wipe" /\ calls[c].st = "done"
          /\ calls[c].resp = "error" /\ calls[c].ret = WipeFailMsg

\* what is left of the loop of on_exit: entries not yet submitted, and the
\* await in progress
FlushMeasure ==
    2 * (Len(memories) - flush.i) + (IF flush.st = "awaiting" THEN 1 ELSE 0)

\* C8: on_exit always terminates without raising: whatever the cache holds
\* and whatever each add returns or raises, no exception leaves on_exit, the
\* loop can always take its next step and every step of it shortens what is
\* left, and on_exit hands over no directive and no tool result.
C8_FlushNeverBlocksTeardown ==
    /\ []("on_exit" \notin raised)
    /\ [](pc = "flushing" =>
             /\ flush.i \in 1..Len(memories)
             /\ flush.st \in {"awaiting", "responded"}
             /\ flush.st = "awaiting" => ENABLED FlushAddResponds
             /\ flush.st = "responded" => ENABLED OnExitResume)
    /\ [][(pc = "flushing" /\ pc' = "flushing") =>
             (FlushMeasure' < FlushMeasure /\ FlushMeasure' >= 0)]_vars
    /\ [][(pc \in {"live", "flushing"} /\ pc' \in {"flushing", "exited"}) =>
             (replies' = replies /\ calls' = calls /\ memories' = memories)]_vars

\* on_exit has completed although the add of an entry raised with entries
\* still to go
C8_Witness ==
    /\ pc = "exited"
    /\ flush.st = "done"
    /\ flush.resp = "error"
    /\ flush.i < Len(memories)
    /\ raised = {}

\* the text fields of the records that have one, in retrieval order
TextsOf(records) ==
    LET withText == SelectSeq(records, LAMBDA r : "memory" \in DOMAIN r)
    IN [i \in 1..Len(withText) |-> withText[i].memory]

\* C9: after on_enter the cache is the sequence of the text fields of the
\* records that the one get_all call for user_id returned, in retrieval
\* order, records without a text field skipped; it is empty when no record
\* was returned, when none has a text field, and when the call failed.
C9_CacheIsRetrievedTexts ==
    pc = "live" =>
        /\ requests = <<Request("get_all", user_id, <<>>, "on_enter", 0)>>
        /\ load.resp = "ok" => load.result = store[user_id]
        /\ memories = IF load.resp = "ok" THEN TextsOf(load.result) ELSE <<>>
        /\ (load.resp = "error" \/ load.result = <<>>
              \/ \A i \in 1..Len(load.result) : "memory" \notin DOMAIN load.result[i])
                 => memories = <<>>

\* get_all returned a record without a text field followed by a record with
\* one: the cache holds the one text
C9_Witness ==
    /\ pc = "live"
    /\ load.resp = "ok"
    /\ Len(load.result) = 2
    /\ "memory" \notin DOMAIN load.result[1]
    /\ "memory" \in DOMAIN load.result[2]
    /\ memories = <<load.result[2].memory>>

\* character lo is the lower-case form of character ch
IsLowerOf(lo, ch) ==
    \/ \E i \in 1..26 : ch = UpperAlpha[i] /\ lo = LowerAlpha[i]
    \/ (\A i \in 1..26 : ch # UpperAlpha[i]) /\ lo = ch

\* fact f contains a travel keyword, in any letter case
MentionsTravel(f) ==
    \E k \in 1..Len(TravelWords) :
        \E at \in 0..(Len(f) - Len(TravelWords[k])) :
            \A j \in 1..Len(TravelWords[k]) :
                IsLowerOf(TravelWords[k][j], f[at + j])

C11_ScopedToOwnUser ==
    /\ [](/\ user_id \in {"default_user"} \cup (Usernames \ {""})
          /\ user_id # ""
          /\ \A i \in 1..Len(requests) : requests[i].user_id = user_id
          /\ \A c \in 1..Len(calls) : calls[c].req.user_id = user_id)
    /\ [][sessions' = sessions => user_id' = user_id]_vars
    /\ [][(load.st = "awaiting" /\ load'.st = "responded" /\ load'.resp = "ok")
             => load'.result = store[user_id]]_vars
    /\ [][\A u \in UserIds : u # user_id => store'[u] = store[u]]_vars

\* a default_user session has wiped its own partition while alice's
\* partition keeps a fact that an earlier session of alice wrote
C11_Witness ==
    /\ sessions = 2
    /\ user_id = "default_user"
    /\ \E c \in 1..Len(calls) :
          calls[c].tool = "wipe" /\ calls[c].st = "done" /\ calls[c].resp = "ok"
    /\ store["default_user"] = <<>>
    /\ \E i \in 1..Len(store["alice"]) :
          /\ "memory" \in DOMAIN store["alice"][i]
          /\ store["alice"][i].memory \in {FactTrip, FactTea}

\* C12: in a session where store_important_info calls have completed and
\* wipe_memories is then called and its delete succeeds, the cache is empty
\* afterwards, the partition is empty and on_exit re-submits nothing; the
\* next session of the same user loads no facts and gives the first-time
\* greeting.
C12_StoreThenWipeLeavesNothing ==
    /\ StoreThenWipe =>
          /\ memories = <<>>
          /\ store[user_id] = <<>>
          /\ FlushedFacts = <<>>
    /\ (prev.kind = "wiped" /\ load.st = "done") =>
          /\ prev.user_id = user_id
          /\ load.resp = "ok" => load.result = <<>>
          /\ hydrated = <<>>
          /\ replies = <<FirstTimeGreeting>>

\* the session after one that stored a fact successfully and then wiped has
\* loaded nothing and greeted as for the first time
C12_Witness ==
    /\ prev.kind = "wiped"
    /\ prev.facts # <<>>
    /\ pc = "live"
    /\ load.resp = "ok"
    /\ load.result = <<>>
    /\ memories = <<>>
    /\ replies = <<FirstTimeGreeting>>

\* C13: continuity across sessions: a user without memory gets the
\* first-time greeting; a store_important_info whose add succeeded returns
\* an acknowledgment that ends with its category; the next session of the
\* same user, when its get_all returns, gets the records of the stored fact,
\* has the fact in its cache, and greets with the fact in lower case when the
\* fact contains a travel keyword.
C13_ContinuityAcrossSessions ==
    /\ (load.st = "done" /\ load.resp = "ok" /\ load.result = <<>>)
          => replies = <<FirstTimeGreeting>>
    /\ \A c \in 1..Len(calls) :
          (calls[c].tool = "store" /\ calls[c].st = "done" /\ calls[c].resp = "ok")
             => /\ Len(calls[c].ret) = 2
                /\ calls[c].ret[2] = calls[c].category
                /\ calls[c].category # ""
    /\ (prev.kind = "stored_once" /\ load.st = "done" /\ load.resp = "ok") =>
          /\ prev.user_id = user_id
          /\ load.result # <<>>
          /\ \A i \in 1..Len(load.result) :
                /\ "memory" \in DOMAIN load.result[i]
                /\ load.result[i].memory = prev.facts[1]
          /\ InSeq(prev.facts[1], hydrated)
          /\ Len(replies) = 1
          /\ IF MentionsTravel(prev.facts[1])
             THEN /\ replies[1].variant = "continuation"
                  /\ Len(replies[1].plan) = Len(prev.facts[1])
                  /\ \A k \in 1..Len(prev.facts[1]) :
                        IsLowerOf(replies[1].plan[k], prev.facts[1][k])
             ELSE replies[1].variant = "generic"

\* the session after a first session that stored "Trip" has it in its cache
\* and greets with "trip"
C13_Witness ==
    /\ prev.kind = "stored_once"
    /\ prev.facts = <<FactTrip>>
    /\ pc = "live"
    /\ load.resp = "ok"
    /\ InSeq(FactTrip, memories)
    /\ replies[1].variant = "continuation"
    /\ replies[1].plan = <<"t", "r", "i", "p">>

\* C14: idempotent read: when on_enter loads twice with no write or delete
\* to the store in between (the load itself writes nothing) and get_all
\* returns both times, the cache after the second load is the cache after
\* the first, same facts in the same order.
C14_IdempotentLoad ==
    /\ [][store' = store]_vars
    /\ []((prev.kind = "loaded_ok" /\ pc = "live" /\ load.resp = "ok") =>
             /\ load.result = store[user_id]
             /\ memories = prev.facts)

\* two loads of a partition with two different facts: the cache holds the
\* two facts once
C14_Witness ==
    /\ prev.kind = "loaded_ok"
    /\ pc = "live"
    /\ load.resp = "ok"
    /\ Len(memories) = 2
    /\ memories[1] # memories[2]
    /\ memories = prev.facts

\* C15: once hydrated the cache is append-only except for wipe: a step of
\* the session leaves it unchanged, or a returning store_important_info
\* appends its one fact at the end, or a returning wipe_memories whose
\* delete succeeded empties it; on_exit does not modify it.
C15_AppendOnlyExceptWipe ==
    /\ [][(sessions' = sessions /\ pc \in {"live", "flushing", "exited"}) =>
             \/ memories' = memories
             \/ \E c \in 1..MaxCalls :
                   /\ Returns(c)
                   /\ calls[c].tool = "store"
                   /\ calls[c].resp = "ok"
                   /\ memories' = Append(memories, calls[c].info)
             \/ \E c \in 1..MaxCalls :
                   /\ Returns(c)
                   /\ calls[c].tool = "wipe"
                   /\ calls[c].resp = "ok"
                   /\ memories' = <<>>]_vars
    /\ [][(sessions' = sessions /\ pc' \in {"flushing", "exited"}) =>
             memories' = memories]_vars

\* a hydrated cache has grown by one fact and has then been wiped, and
\* on_exit has run
C15_Witness ==
    /\ hydrated # <<>>
    /\ Len(calls) = 2
    /\ resumed = <<1, 2>>
    /\ calls[1].tool = "store" /\ calls[1].resp = "ok"
    /\ calls[2].tool = "wipe" /\ calls[2].resp = "ok"
    /\ memories = <<>>
    /\ pc = "exited"

\* C16: within a session the load of on_enter completes before any tool
\* call runs: while get_all is pending there is no tool call and the cache
\* is still empty, so the assignment made by hydration overwrites nothing
\* that a tool appended.
C16_LoadBeforeTools ==
    /\ [](pc \in {"constructed", "loading"} => (calls = <<>> /\ memories = <<>>))
    /\ [][(pc = "loading" /\ pc' = "live") =>
             (calls = <<>> /\ memories = <<>> /\ memories' = hydrated')]_vars
    /\ [](\A c \in 1..Len(calls) : load.st = "done")

\* a fact appended by a tool stands behind the hydrated facts
C16_Witness ==
    /\ pc = "live"
    /\ hydrated # <<>>
    /\ \E c \in 1..Len(calls) :
          /\ calls[c].tool = "store"
          /\ calls[c].st = "done"
          /\ calls[c].resp = "ok"
          /\ memories = hydrated \o <<calls[c].info>>

\* C17: category influences only the returned string: the add that
\* store_important_info issues carries the fact text and the user_id and
\* nothing of the category, and the cache it leaves is the cache it would
\* have left under any other category; two calls that differ only in
\* category issue the same add.
C17_CategoryOnlyInReply ==
    /\ [][\A c \in 1..MaxCalls :
             (Begins(c) /\ calls'[c].tool = "store") =>
                /\ requests' = Append(requests,
                      [op |-> "add", user_id |-> user_id,
                       content |-> <<[role |-> "assistant", content |-> calls'[c].info]>>,
                       src |-> "tool", call |-> c])
                /\ memories' = memories
                /\ store' = store]_vars
    /\ [][\A c \in 1..MaxCalls :
             (Returns(c) /\ calls[c].tool = "store") =>
                \A category \in Categories :
                    memories' = StoreOutcome(memories, calls[c].resp,
                                             calls[c].info, category).memories]_vars
    /\ [](\A c, d \in 1..Len(calls) :
             (calls[c].tool = "store" /\ calls[d].tool = "store"
                /\ calls[c].info = calls[d].info) =>
                   /\ calls[c].req.op = calls[d].req.op
                   /\ calls[c].req.user_id = calls[d].req.user_id
                   /\ calls[c].req.content = calls[d].req.content)

\* the same fact stored under two categories: two acknowledgments, the same
\* add twice, the fact twice in the cache
C17_Witness ==
    /\ Len(calls) = 2
    /\ calls[1].info = calls[2].info
    /\ calls[1].category # calls[2].category
    /\ calls[1].resp = "ok" /\ calls[2].resp = "ok"
    /\ calls[1].st = "done" /\ calls[2].st = "done"
    /\ calls[1].ret # calls[2].ret
    /\ calls[1].req.content = calls[2].req.content
    /\ memories = hydrated \o <<calls[1].info, calls[2].info>>

\* C18: every fact in the cache was hydrated by on_enter or is the argument
\* of a store_important_info whose add returned successfully;
\* store_important_info returns the "Stored important information"
\* acknowledgment and grows the cache by one exactly when its add
\* succeeded, and leaves the cache unchanged when the add failed.
C18_CachedFactsWereStored ==
    /\ [](\A i \in 1..Len(memories) :
             \/ InSeq(memories[i], hydrated)
             \/ \E c \in 1..Len(calls) :
                   /\ calls[c].tool = "store"
                   /\ calls[c].st = "done"
                   /\ calls[c].resp = "ok"
                   /\ calls[c].info = memories[i])
    /\ [](\A c \in 1..Len(calls) :
             (calls[c].tool = "store" /\ calls[c].st = "done") =>
                (calls[c].ret[1] = "Stored important information about "
                    <=> calls[c].resp = "ok"))
    /\ [][\A c \in 1..MaxCalls :
             (Returns(c) /\ calls[c].tool = "store") =>
                /\ Len(memories') = Len(memories) + 1 <=> calls[c].resp = "ok"
                /\ calls[c].resp = "error" => memories' = memories]_vars

\* one add succeeded and one failed: the cache has the first fact behind the
\* hydrated ones and not the second
C18_Witness ==
    /\ Len(calls) = 2
    /\ calls[1].tool = "store" /\ calls[2].tool = "store"
    /\ calls[1].st = "done" /\ calls[2].st = "done"
    /\ calls[1].resp = "ok" /\ calls[2].resp = "error"
    /\ calls[1].info # calls[2].info
    /\ memories = hydrated \o <<calls[1].info>>
    /\ ~InSeq(calls[2].info, memories)

\* the texts of the records of the session's partition
RemoteFacts == {store[user_id][j].memory :
                   j \in {k \in 1..Len(store[user_id]) :
                             "memory" \in DOMAIN store[user_id][k]}}

\* C19 as stated: with a store that honours every add and delete, once no
\* tool call is in flight every fact in the cache is in the partition of
\* user_id, whatever the interleaving of a wipe_memories with the
\* store_important_info calls in flight.
C19_CacheBackedByStore ==
    (/\ pc = "live"
     /\ load.resp = "ok"
     /\ \A c \in 1..Len(calls) : calls[c].st = "done" /\ calls[c].resp = "ok")
        => \A i \in 1..Len(memories) : memories[i] \in RemoteFacts
====
